---- MODULE Spec2Model ----
(***************************************************************************)
(* Model of Chatbot.py, the console catalog search tool: the record loader *)
(* (load_database), the four query modes (search_by_type,                  *)
(* find_free_plugins, find_by_tag, smart_search), the paginator            *)
(* (display_paginated_results) and the menu loop (main).                   *)
(*                                                                         *)
(* A Python str is a sequence of one-character strings, so that strip,     *)
(* split, lower, int and the `in` substring test are computed character by *)
(* character rather than assumed.                                          *)
(***************************************************************************)
EXTENDS Integers, Sequences, FiniteSets, TLC

\* ------------------------------------------------------------------------
\* Bounds
\* ------------------------------------------------------------------------

\* A file holds at most MaxLines lines, taken in order from SampleFile.
MaxLines == 5

\* ------------------------------------------------------------------------
\* Python str primitives
\* ------------------------------------------------------------------------

Upper == <<"A","B","C","D","E","F","G","H","I","J","K","L","M",
           "N","O","P","Q","R","S","T","U","V","W","X","Y","Z">>

LowerAlpha == <<"a","b","c","d","e","f","g","h","i","j","k","l","m",
                "n","o","p","q","r","s","t","u","v","w","x","y","z">>

Digits == <<"0","1","2","3","4","5","6","7","8","9">>

\* str.lower() on one character
LowerChar(c) ==
    IF \E i \in 1..26 : Upper[i] = c
    THEN LowerAlpha[CHOOSE i \in 1..26 : Upper[i] = c]
    ELSE c

\* str.lower()
Lower(s) == [i \in 1..Len(s) |-> LowerChar(s[i])]

\* str.isspace() on one character
IsSpace(c) == c \in {" ", "\t", "\n"}

\* s[i:] with 0-based i
DropFirst(s, i) == SubSeq(s, i + 1, Len(s))

\* str.strip(): remove leading and trailing whitespace
Strip(s) ==
    LET keep == {i \in 1..Len(s) : ~IsSpace(s[i])}
    IN  IF keep = {} THEN <<>>
        ELSE LET lo == CHOOSE i \in keep : \A j \in keep : i <= j
                 hi == CHOOSE i \in keep : \A j \in keep : j <= i
             IN  SubSeq(s, lo, hi)

\* str.split(sep) with a one-character separator: empty fields are kept
RECURSIVE Split(_, _)
Split(s, sep) ==
    IF \A i \in 1..Len(s) : s[i] # sep
    THEN <<s>>
    ELSE LET k == CHOOSE i \in 1..Len(s) :
                      s[i] = sep /\ \A j \in 1..(i - 1) : s[j] # sep
         IN  <<SubSeq(s, 1, k - 1)>> \o Split(DropFirst(s, k), sep)

\* str.split() without separator: runs of whitespace separate the words and
\* no empty word is produced
RECURSIVE SplitWords(_)
SplitWords(s) ==
    LET t == Strip(s)
    IN  IF t = <<>> THEN <<>>
        ELSE IF \A i \in 1..Len(t) : ~IsSpace(t[i])
        THEN <<t>>
        ELSE LET k == CHOOSE i \in 1..Len(t) :
                          IsSpace(t[i]) /\ \A j \in 1..(i - 1) : ~IsSpace(t[j])
             IN  <<SubSeq(t, 1, k - 1)>> \o SplitWords(DropFirst(t, k))

\* sep.join(parts)
RECURSIVE Join(_, _)
Join(parts, sep) ==
    IF parts = <<>> THEN <<>>
    ELSE IF Len(parts) = 1 THEN parts[1]
    ELSE parts[1] \o sep \o Join(Tail(parts), sep)

\* needle in hay (substring test); the empty string is in every string
Contains(needle, hay) ==
    \E i \in 0..(Len(hay) - Len(needle)) :
        SubSeq(hay, i + 1, i + Len(needle)) = needle

DigitVal(c) == (CHOOSE i \in 1..10 : Digits[i] = c) - 1

IsDigit(c) == \E i \in 1..10 : Digits[i] = c

RECURSIVE DigitsVal(_)
DigitsVal(ds) ==
    IF ds = <<>> THEN 0
    ELSE 10 * DigitsVal(SubSeq(ds, 1, Len(ds) - 1)) + DigitVal(ds[Len(ds)])

\* int(s): surrounding whitespace is ignored, one optional sign, then at
\* least one decimal digit; anything else raises ValueError (ok = FALSE).
ParseInt(s) ==
    LET t    == Strip(s)
        sgn  == t # <<>> /\ t[1] \in {"+", "-"}
        body == IF sgn THEN Tail(t) ELSE t
    IN  IF body # <<>> /\ \A i \in 1..Len(body) : IsDigit(body[i])
        THEN [ok |-> TRUE,
              val |-> IF sgn /\ t[1] = "-" THEN 0 - DigitsVal(body)
                      ELSE DigitsVal(body)]
        ELSE [ok |-> FALSE, val |-> 0]

\* [f(x) for x in seq]
StripAll(parts) == [i \in 1..Len(parts) |-> Strip(parts[i])]

\* ------------------------------------------------------------------------
\* load_database
\* ------------------------------------------------------------------------

\* parts = [p.strip() for p in line.strip().split(',')]
Parts(line) == StripAll(Split(Strip(line), ","))

\* the dict built from a 5-part line whose price parses
Tool(parts) ==
    [name      |-> parts[1],
     type      |-> parts[2],
     developer |-> parts[3],
     price     |-> ParseInt(parts[4]).val,
     tags      |-> StripAll(Split(parts[5], ";"))]

\* The loop over the lines: blank lines and lines without 5 parts are
\* skipped; a 5-part line whose price is no integer raises ValueError out of
\* load_database (raised = TRUE, the loop stops there).
RECURSIVE LoadLines(_, _)
LoadLines(lines, database) ==
    IF lines = <<>> THEN [raised |-> FALSE, database |-> database]
    ELSE LET line == Head(lines)
         IN  IF Strip(line) = <<>>
             THEN LoadLines(Tail(lines), database)
             ELSE IF Len(Parts(line)) = 5
             THEN IF ParseInt(Parts(line)[4]).ok
                  THEN LoadLines(Tail(lines), Append(database, Tool(Parts(line))))
                  ELSE [raised |-> TRUE, database |-> database]
             ELSE LoadLines(Tail(lines), database)

load_database(lines) == LoadLines(lines, <<>>)

\* ------------------------------------------------------------------------
\* Words and answers the code compares against
\* ------------------------------------------------------------------------

FreeWord == <<"f","r","e","e">>

PaidWord == <<"p","a","i","d">>

QuitWord == <<"q">>

YesWord == <<"y">>

\* ------------------------------------------------------------------------
\* Filter engine
\* ------------------------------------------------------------------------

\* found = [tool for tool in db if search_term in tool['type'].lower()]
TypeFound(db, raw) ==
    LET search_term == Lower(raw)
    IN  SelectSeq(db, LAMBDA tool : Contains(search_term, Lower(tool.type)))

\* found = [tool for tool in db if tool['price'] == 0]
FreeFound(db) == SelectSeq(db, LAMBDA tool : tool.price = 0)

\* any(search_term in tag for tag in tool['tags']): the tags are compared as
\* stored, only the search term is lowered
TagMatches(search_term, tool) ==
    \E i \in 1..Len(tool.tags) : Contains(search_term, tool.tags[i])

\* the body of find_by_tag's loop up to the result list
TagFound(db, raw) ==
    LET search_term == Lower(raw)
    IN  IF search_term = PaidWord
        THEN SelectSeq(db, LAMBDA tool : tool.price > 0)
        ELSE SelectSeq(db, LAMBDA tool : TagMatches(search_term, tool))

\* SmartCancelled without the test: the empty query is searched like any other
SmartNeverCancelled(user_query) == FALSE

\* SmartCancelled testing the stripped query: a blank query cancels as well
SmartCancelledBlank(user_query) == Strip(user_query) = <<>>

\* if not user_query: break
SmartCancelled(user_query) == user_query = <<>>

\* query_words = set(user_query.split())
QueryWords(user_query) ==
    LET words == SplitWords(user_query)
    IN  {words[i] : i \in 1..Len(words)}

\* search_text of one tool
SearchText(tool) ==
    Lower(tool.name \o <<" ">> \o tool.type \o <<" ">> \o tool.developer
          \o <<" ">> \o Join(tool.tags, <<" ">>))

\* the price filter of smart_search: TRUE when the tool is skipped
PriceSkipped(is_free_search, is_paid_search, tool) ==
    \/ is_free_search /\ tool.price # 0
    \/ is_paid_search /\ tool.price = 0

\* found_tools of smart_search for an already lowered, non-empty query
SmartFound(db, user_query) ==
    LET query_words    == QueryWords(user_query)
        is_free_search == FreeWord \in query_words
        is_paid_search == PaidWord \in query_words
        remaining      == query_words \ {FreeWord, PaidWord}
    IN  SelectSeq(db, LAMBDA tool :
            /\ ~PriceSkipped(is_free_search, is_paid_search, tool)
            /\ \A word \in remaining : Contains(word, SearchText(tool)))

\* KeepSearching without .lower(): only the lower-case y repeats
KeepSearchingAsTyped(answer) == answer = YesWord

\* keep_searching = input(...).lower(); if keep_searching != 'y': break
KeepSearching(answer) == Lower(answer) = YesWord

\* ------------------------------------------------------------------------
\* Paginator
\* ------------------------------------------------------------------------

page_size == 2

\* math.ceil(n / d) for n >= 0, d > 0
Ceil(n, d) == CHOOSE k \in 0..n : k * d >= n /\ (k - 1) * d < n

\* TotalPages with floor division: the last, partial page is not counted
TotalPagesFloor(res) == Len(res) \div page_size

\* total_pages = math.ceil(len(results) / page_size)
TotalPages(res) == Ceil(Len(res), page_size)

\* the position a slice bound i denotes in a sequence of length n: a
\* negative bound counts from the end, and the result is clipped to 0..n
SliceBound(i, n) ==
    IF i < 0 THEN (IF i + n < 0 THEN 0 ELSE i + n)
    ELSE IF i > n THEN n ELSE i

\* s[a:b]
Slice(s, a, b) ==
    LET lo == SliceBound(a, Len(s))
        hi == SliceBound(b, Len(s))
    IN  IF hi <= lo THEN <<>> ELSE SubSeq(s, lo + 1, hi)

\* page_items for the page that is displayed
PageItems(res, page) ==
    LET start_index == (page - 1) * page_size
        end_index   == start_index + page_size
    IN  Slice(res, start_index, end_index)

\* PageChoice without the range test: every number becomes the current page
PageChoiceNoRange(raw, cur, total) ==
    LET choice == Lower(raw)
    IN  IF choice = QuitWord
        THEN [quit |-> TRUE, page |-> cur, out |-> "none"]
        ELSE IF ~ParseInt(choice).ok
        THEN [quit |-> FALSE, page |-> cur, out |-> "invalid_input"]
        ELSE [quit |-> FALSE, page |-> ParseInt(choice).val, out |-> "none"]

\* One answer at the pagination prompt: what the try block decides.
\*   quit: the loop is left; page: the value of current_page afterwards;
\*   out: the message printed
PageChoice(raw, cur, total) ==
    LET choice == Lower(raw)
    IN  IF choice = QuitWord
        THEN [quit |-> TRUE, page |-> cur, out |-> "none"]
        ELSE IF ~ParseInt(choice).ok
        THEN [quit |-> FALSE, page |-> cur, out |-> "invalid_input"]
        ELSE IF 1 <= ParseInt(choice).val /\ ParseInt(choice).val <= total
        THEN [quit |-> FALSE, page |-> ParseInt(choice).val, out |-> "none"]
        ELSE [quit |-> FALSE, page |-> cur, out |-> "invalid_page"]

\* ------------------------------------------------------------------------
\* Menu controller
\* ------------------------------------------------------------------------

\* MenuDispatch whose final else leaves the loop: anything but 1-4 exits
MenuDispatchElseExit(choice) ==
    IF choice = <<"1">> THEN "type"
    ELSE IF choice = <<"2">> THEN "free"
    ELSE IF choice = <<"3">> THEN "tag"
    ELSE IF choice = <<"4">> THEN "smart"
    ELSE "exit"

\* the if/elif chain of main: the choice is compared as typed
MenuDispatch(choice) ==
    IF choice = <<"1">> THEN "type"
    ELSE IF choice = <<"2">> THEN "free"
    ELSE IF choice = <<"3">> THEN "tag"
    ELSE IF choice = <<"4">> THEN "smart"
    ELSE IF choice = <<"5">> THEN "exit"
    ELSE "invalid"

\* where a query mode continues when display_paginated_results returns
ReturnSite(mode) ==
    IF mode = "type" THEN "TypeRepeat"
    ELSE IF mode = "free" THEN "FreeReturn"
    ELSE IF mode = "tag" THEN "TagRepeat"
    ELSE "SmartRepeat"

\* ------------------------------------------------------------------------
\* Files and console input
\* ------------------------------------------------------------------------

\* "Ra,EQ,d,0,Vi;x\n"
Line1 ==
    <<"R","a",",","E","Q",",","d",",","0",",","V","i",";","x","\n">>

\* "Sb,Sy,e,5,vi\n"
Line2 ==
    <<"S","b",",","S","y",",","e",",","5",",","v","i","\n">>

\* " Tq ,eq,d,0,x ; vi\n"
Line3 ==
    <<" ","T","q"," ",",","e","q",",","d",",","0",",","x"," ",";"," ","v","i","\n">>

\* "Bad,EQ,d\n": three fields
Line4 ==
    <<"B","a","d",",","E","Q",",","d","\n">>

\* "Nc,EQ,e,-3,x\n": int() accepts the negative price
Line5 ==
    <<"N","c",",","E","Q",",","e",",","-","3",",","x","\n">>

\* " \n": blank
Line6 ==
    <<" ","\n">>

\* "Pz,EQ,d,ab,x\n": five fields, the price is no integer
Line7 ==
    <<"P","z",",","E","Q",",","d",",","a","b",",","x","\n">>

\* "Ud,Sy,d,0,paid;Vi": a free tool that carries the tag "paid"
Line8 ==
    <<"U","d",",","S","y",",","d",",","0",",","p","a","i","d",";","V","i">>

SampleFile == <<Line1, Line2, Line3, Line4, Line5, Line6, Line7, Line8>>

\* the lines of SampleFile at the positions in idx, in file order
RECURSIVE Pick(_, _)
Pick(idx, from) ==
    IF from > Len(SampleFile) THEN <<>>
    ELSE IF from \in idx THEN <<SampleFile[from]>> \o Pick(idx, from + 1)
    ELSE Pick(idx, from + 1)

Files ==
    {Pick(idx, 1) : idx \in {i \in SUBSET (1..Len(SampleFile)) :
                                 Cardinality(i) <= MaxLines}}

MenuInputs ==
    {<<"1">>, <<"2">>, <<"3">>, <<"4">>, <<"5">>, <<"6">>, <<" ","5">>, <<"x">>}

TypeInputs == {<<"e","q">>, <<"S","Y">>, <<>>, <<"z">>}

TagInputs == {<<"v","i">>, <<"V","i">>, <<"p","a","i","d">>, <<"P","A","I","D">>,
              <<"x">>, <<"z">>}

SmartInputs ==
    {<<>>, <<" ">>, FreeWord, PaidWord,
     <<"f","r","e","e"," ","p","a","i","d">>,
     <<"F","r","e","e"," "," ","E","Q">>,
     <<"p","a","i","d"," ","v","i">>,
     <<"v","i"," ","d">>,
     <<"e","q">>,
     <<"z">>}

RepeatInputs == {<<"y">>, <<"Y">>, <<"n">>, <<>>, <<"y","e","s">>}

PageInputs ==
    {<<"q">>, <<"Q">>, <<"0">>, <<"1">>, <<"2">>, <<"3">>, <<"4">>, <<"-","1">>,
     <<" ","2">>, <<"x">>, <<>>}

\* ------------------------------------------------------------------------
\* State
\* ------------------------------------------------------------------------

VARIABLES
    exists,        \* whether tools_database.txt can be opened
    lines,         \* f.readlines()
    database,      \* main's database
    pc,            \* the input() the program is blocked on, or how it ended
    caller,        \* the query mode that is running ("" at the main menu)
    found,         \* the query mode's result list
    results,       \* display_paginated_results: its argument
    total_pages,   \* display_paginated_results: total_pages
    current_page,  \* display_paginated_results: current_page
    shown,         \* the page_items printed by the last step
    out,           \* the message printed by the last step
    lastInput,     \* the line the last step read from the console
    last           \* the operation the last step performed

vars == <<exists, lines, database, pc, caller, found, results, total_pages,
          current_page, shown, out, lastInput, last>>

Prompts == {"MainMenu", "TypePrompt", "TypeRepeat", "FreeReturn", "TagPrompt",
            "TagRepeat", "SmartPrompt", "SmartRepeat", "PagePrompt"}

Init ==
    /\ exists \in BOOLEAN
    /\ lines \in Files
    /\ (~exists => lines = <<>>)
    /\ database = <<>>
    /\ pc = "Start"
    /\ caller = ""
    /\ found = <<>>
    /\ results = <<>>
    /\ total_pages = 0
    /\ current_page = 0
    /\ shown = <<>>
    /\ out = "none"
    /\ lastInput = <<>>
    /\ last = "init"

\* no call of display_paginated_results is in progress or just returned
PagerIdle ==
    /\ results' = <<>>
    /\ total_pages' = 0
    /\ current_page' = 0
    /\ shown' = <<>>

\* display_paginated_results(res) called by mode, up to its first prompt or
\* its return
Display(res, mode) ==
    /\ results' = res
    /\ total_pages' = TotalPages(res)
    /\ current_page' = 1
    /\ IF TotalPages(res) = 0
       THEN shown' = <<>> /\ pc' = ReturnSite(mode)
       ELSE /\ shown' = PageItems(res, 1)
            /\ pc' = IF TotalPages(res) = 1 THEN ReturnSite(mode)
                     ELSE "PagePrompt"

\* if found: print header, paginate; else: print the no-results message
ShowResults(f, mode) ==
    /\ found' = f
    /\ caller' = mode
    /\ IF f # <<>>
       THEN out' = "found" /\ Display(f, mode)
       ELSE out' = "not_found" /\ PagerIdle /\ pc' = ReturnSite(mode)

\* a query mode returns to main's loop
BackToMenu ==
    /\ pc' = "MainMenu"
    /\ caller' = ""
    /\ found' = <<>>
    /\ PagerIdle

\* ------------------------------------------------------------------------
\* Actions
\* ------------------------------------------------------------------------

\* main: database = load_database(...); if not database: return
Load ==
    /\ pc = "Start"
    /\ last' = "load"
    /\ UNCHANGED <<exists, lines, caller, found, results, total_pages,
                   current_page, shown, lastInput>>
    /\ IF ~exists
       THEN database' = <<>> /\ out' = "file_not_found" /\ pc' = "Terminated"
       ELSE LET r == load_database(lines)
            IN  IF r.raised
                THEN database' = <<>> /\ out' = "traceback" /\ pc' = "Aborted"
                ELSE /\ database' = r.database
                     /\ out' = "none"
                     /\ pc' = IF r.database = <<>> THEN "Terminated"
                              ELSE "MainMenu"

\* main: one answer at the menu prompt
Menu ==
    /\ pc = "MainMenu"
    /\ \E choice \in MenuInputs :
        /\ lastInput' = choice
        /\ last' = "menu"
        /\ UNCHANGED <<exists, lines, database>>
        /\ CASE MenuDispatch(choice) = "type" ->
                  /\ pc' = "TypePrompt" /\ caller' = "type" /\ out' = "none"
                  /\ found' = <<>> /\ PagerIdle
             [] MenuDispatch(choice) = "free" ->
                  ShowResults(FreeFound(database), "free")
             [] MenuDispatch(choice) = "tag" ->
                  /\ pc' = "TagPrompt" /\ caller' = "tag" /\ out' = "none"
                  /\ found' = <<>> /\ PagerIdle
             [] MenuDispatch(choice) = "smart" ->
                  /\ pc' = "SmartPrompt" /\ caller' = "smart" /\ out' = "none"
                  /\ found' = <<>> /\ PagerIdle
             [] MenuDispatch(choice) = "exit" ->
                  /\ pc' = "Terminated" /\ caller' = "" /\ out' = "goodbye"
                  /\ found' = <<>> /\ PagerIdle
             [] OTHER ->
                  /\ pc' = "MainMenu" /\ caller' = "" /\ out' = "invalid_choice"
                  /\ found' = <<>> /\ PagerIdle

\* search_by_type: the search term is read and searched
TypeQuery ==
    /\ pc = "TypePrompt"
    /\ \E raw \in TypeInputs :
        /\ lastInput' = raw
        /\ last' = "type_query"
        /\ UNCHANGED <<exists, lines, database>>
        /\ ShowResults(TypeFound(database, raw), "type")

\* find_by_tag: the search term is read and searched
TagQuery ==
    /\ pc = "TagPrompt"
    /\ \E raw \in TagInputs :
        /\ lastInput' = raw
        /\ last' = "tag_query"
        /\ UNCHANGED <<exists, lines, database>>
        /\ ShowResults(TagFound(database, raw), "tag")

\* smart_search: the query is read; empty leaves the loop, else it is searched
SmartQuery ==
    /\ pc = "SmartPrompt"
    /\ \E raw \in SmartInputs :
        /\ lastInput' = raw
        /\ last' = "smart_query"
        /\ UNCHANGED <<exists, lines, database>>
        /\ IF SmartCancelled(Lower(raw))
           THEN out' = "none" /\ BackToMenu
           ELSE ShowResults(SmartFound(database, Lower(raw)), "smart")

\* the (y/n) question that ends an iteration of search_by_type, find_by_tag
\* and smart_search
Repeat ==
    /\ pc \in {"TypeRepeat", "TagRepeat", "SmartRepeat"}
    /\ \E answer \in RepeatInputs :
        /\ lastInput' = answer
        /\ last' = "repeat"
        /\ out' = "none"
        /\ UNCHANGED <<exists, lines, database>>
        /\ IF KeepSearching(answer)
           THEN /\ pc' = CASE pc = "TypeRepeat" -> "TypePrompt"
                           [] pc = "TagRepeat" -> "TagPrompt"
                           [] OTHER -> "SmartPrompt"
                /\ UNCHANGED <<caller, found>>
                /\ PagerIdle
           ELSE BackToMenu

\* find_free_plugins: input("Press Enter to return to the main menu.")
FreeReturn ==
    /\ pc = "FreeReturn"
    /\ \E answer \in RepeatInputs :
        /\ lastInput' = answer
        /\ last' = "free_return"
        /\ out' = "none"
        /\ UNCHANGED <<exists, lines, database>>
        /\ BackToMenu

\* display_paginated_results: one answer at the page prompt, then either the
\* return to the calling mode or the next display of a page
PageInput ==
    /\ pc = "PagePrompt"
    /\ \E raw \in PageInputs :
        LET d == PageChoice(raw, current_page, total_pages)
        IN  /\ lastInput' = raw
            /\ last' = "page"
            /\ out' = d.out
            /\ UNCHANGED <<exists, lines, database, caller, found, results,
                           total_pages>>
            /\ current_page' = d.page
            /\ IF d.quit
               THEN shown' = <<>> /\ pc' = ReturnSite(caller)
               ELSE shown' = PageItems(results, d.page) /\ pc' = "PagePrompt"

\* Interrupt without the except KeyboardInterrupt clause of the paginator
InterruptUncaught ==
    /\ pc \in Prompts
    /\ last' = "interrupt"
    /\ UNCHANGED <<exists, lines, database, caller, found, results,
                   total_pages, current_page, lastInput>>
    /\ shown' = <<>>
    /\ out' = "traceback"
    /\ pc' = "Aborted"

\* KeyboardInterrupt while blocked in input(): caught at the page prompt only
Interrupt ==
    /\ pc \in Prompts
    /\ last' = "interrupt"
    /\ UNCHANGED <<exists, lines, database, caller, found, results,
                   total_pages, current_page, lastInput>>
    /\ shown' = <<>>
    /\ IF pc = "PagePrompt"
       THEN out' = "returning" /\ pc' = ReturnSite(caller)
       ELSE out' = "traceback" /\ pc' = "Aborted"

Next ==
    \/ Load
    \/ Menu
    \/ TypeQuery
    \/ TagQuery
    \/ SmartQuery
    \/ Repeat
    \/ FreeReturn
    \/ PageInput
    \/ Interrupt

Spec == Init /\ [][Next]_vars

\* ------------------------------------------------------------------------
\* Properties
\* ------------------------------------------------------------------------

Range(s) == {s[i] : i \in 1..Len(s)}

\* a line that splits into exactly 5 comma-separated fields whose Price
\* field parses as an integer
WellFormed(line) ==
    /\ Len(Parts(line)) = 5
    /\ ParseInt(Parts(line)[4]).ok

\* the records of the well-formed lines, in file order
RECURSIVE WellFormedRecords(_)
WellFormedRecords(ls) ==
    IF ls = <<>> THEN <<>>
    ELSE IF WellFormed(Head(ls))
    THEN <<Tool(Parts(Head(ls)))>> \o WellFormedRecords(Tail(ls))
    ELSE WellFormedRecords(Tail(ls))

\* C1: load_database never raises on a malformed line: whatever lines the
\* file holds, loading completes and the catalog is exactly the records of
\* the well-formed lines (5 fields, integer price) in file order.
C1_LoadNeverRaises ==
    (last = "load" /\ exists) =>
        /\ pc # "Aborted"
        /\ database = WellFormedRecords(lines)

\* C2: the tag filter is case-insensitive: for a query other than "paid" the
\* result is exactly the records one of whose tags, case-folded, contains the
\* case-folded query.
C2_TagFilterCaseInsensitive ==
    (last = "tag_query" /\ Lower(lastInput) # PaidWord) =>
        found = SelectSeq(database, LAMBDA tool :
                    \E i \in 1..Len(tool.tags) :
                        Contains(Lower(lastInput), Lower(tool.tags[i])))

\* the query q with every occurrence of the word w taken out
WithoutWord(q, w) ==
    Join(SelectSeq(SplitWords(q), LAMBDA x : x # w), <<" ">>)

\* C3: in smart search the price keywords are pure post-filters: the result
\* of a query with the token "free" is the result of the query without it,
\* restricted to price == 0, and the result of a query with the token "paid"
\* is the result of the query without it, restricted to price > 0.
C3_PriceKeywordsPostFilter ==
    (last = "smart_query" /\ lastInput # <<>>) =>
        LET q == Lower(lastInput)
        IN  /\ FreeWord \in QueryWords(q) =>
                 found = SelectSeq(SmartFound(database, WithoutWord(q, FreeWord)),
                                   LAMBDA tool : tool.price = 0)
            /\ PaidWord \in QueryWords(q) =>
                 found = SelectSeq(SmartFound(database, WithoutWord(q, PaidWord)),
                                   LAMBDA tool : tool.price > 0)

\* an affirmative answer to a (y/n) question
Affirmative(answer) == answer \in {<<"y">>, <<"Y">>}

\* the prompt at which a query mode asks for its search term
ModePrompt(mode) ==
    CASE mode = "type" -> "TypePrompt"
      [] mode = "tag" -> "TagPrompt"
      [] mode = "smart" -> "SmartPrompt"
      [] OTHER -> "none"

\* the step answers the question a query mode asks after its results
AnswersAfterResults ==
    /\ pc \in {"TypeRepeat", "TagRepeat", "SmartRepeat", "FreeReturn"}
    /\ last' \in {"repeat", "free_return"}

\* C4 as stated: in each of the four query modes, an affirmative answer to
\* the question asked after the results runs the same mode again, and any
\* other answer returns control to MainMenu.
C4_EveryModeAsksRepeat ==
    [][AnswersAfterResults =>
         IF Affirmative(lastInput')
         THEN caller' = caller /\ pc' # "MainMenu"
         ELSE pc' = "MainMenu"]_vars

\* C4 amended: type search, tag search and smart search (for a non-empty
\* query) show their results or their no-results message and then ask, at
\* once or when the paginator returns, whether to search again; y or Y runs
\* the same mode again and any other answer returns to MainMenu.  The
\* free-plugin listing asks no such question: after its results or its
\* no-results message it waits for one line and returns to MainMenu whatever
\* the line is.
C4_RepeatExceptFreeListing ==
    [][/\ (last' \in {"type_query", "tag_query"}
            \/ (last' = "smart_query" /\ lastInput' # <<>>)) =>
              /\ out' \in {"found", "not_found"}
              /\ caller' = caller
              /\ \/ pc' = "PagePrompt" /\ found' # <<>>
                 \/ /\ pc' = CASE caller = "type" -> "TypeRepeat"
                                [] caller = "tag" -> "TagRepeat"
                                [] OTHER -> "SmartRepeat"
       /\ (last' = "menu" /\ lastInput' = <<"2">>) =>
              /\ out' \in {"found", "not_found"}
              /\ pc' \in {"FreeReturn", "PagePrompt"}
       /\ (AnswersAfterResults /\ pc # "FreeReturn") =>
              IF Affirmative(lastInput')
              THEN caller' = caller /\ pc' = ModePrompt(caller)
              ELSE pc' = "MainMenu"
       /\ (AnswersAfterResults /\ pc = "FreeReturn") => pc' = "MainMenu"]_vars

C4_Witness ==
    /\ last = "repeat"
    /\ lastInput = <<"Y">>
    /\ pc = "SmartPrompt"

RECURSIVE Flatten(_)
Flatten(ss) == IF ss = <<>> THEN <<>> ELSE Head(ss) \o Flatten(Tail(ss))

\* results[a:b] written out index by index, for 0 <= a
IndexRange(s, a, b) ==
    LET hi == IF b < Len(s) THEN b ELSE Len(s)
    IN  [i \in 1..(IF hi > a THEN hi - a ELSE 0) |-> s[a + i]]

\* C5: for a result list of n >= 1 records, total_pages = ceil(n/2); a
\* displayed page k shows exactly the results at indices
\* [2(k-1), min(2k, n)); every page is non-empty and the pages
\* 1..total_pages, one after the other, are the result list.
C5_PagesPartition ==
    results # <<>> =>
        LET n == Len(results)
        IN  /\ total_pages = (n + 1) \div 2
            /\ shown # <<>> =>
                 /\ current_page \in 1..total_pages
                 /\ shown = IndexRange(results, 2 * (current_page - 1),
                                       2 * current_page)
            /\ \A k \in 1..total_pages :
                 /\ PageItems(results, k) # <<>>
                 /\ PageItems(results, k) = IndexRange(results, 2 * (k - 1), 2 * k)
            /\ Flatten([k \in 1..total_pages |-> PageItems(results, k)]) = results

C5_Witness ==
    /\ Len(results) = 5
    /\ total_pages = 3
    /\ current_page = 3
    /\ Len(shown) = 1

\* C6: at the page prompt an input that is neither the quit token nor a
\* number within [1, total_pages] leaves current_page unchanged and the same
\* page is displayed again; an in-range number sets current_page to exactly
\* that number; current_page never leaves [1, total_pages].
C6_InvalidPageInputKeepsPage ==
    [][(pc = "PagePrompt" /\ last' = "page") =>
         LET c       == Lower(lastInput')
             n       == ParseInt(c)
             inRange == n.ok /\ 1 <= n.val /\ n.val <= total_pages
         IN  /\ (c # QuitWord /\ ~inRange) =>
                   /\ current_page' = current_page
                   /\ pc' = "PagePrompt"
                   /\ shown' = PageItems(results, current_page)
                   /\ out' \in {"invalid_page", "invalid_input"}
             /\ inRange => current_page' = n.val /\ pc' = "PagePrompt"
             /\ current_page' # current_page => inRange
             /\ current_page \in 1..total_pages
             /\ current_page' \in 1..total_pages]_vars

C6_Witness ==
    /\ last = "page"
    /\ lastInput = <<"4">>
    /\ pc = "PagePrompt"
    /\ current_page = 2
    /\ total_pages = 3
    /\ out = "invalid_page"

\* the step is q or an interrupt at the page prompt
QuitsPaging ==
    /\ pc = "PagePrompt"
    /\ \/ last' = "interrupt"
       \/ last' = "page" /\ Lower(lastInput') = QuitWord

\* C7 as stated: q or an interrupt at the page prompt returns control to the
\* calling query mode, which continues with its repeat prompt; the process
\* does not end and no error is reported.
C7_QuitReturnsToRepeatPrompt ==
    [][QuitsPaging =>
         /\ pc' \in {"TypeRepeat", "TagRepeat", "SmartRepeat"}
         /\ out' \in {"none", "returning"}]_vars

\* C7 amended: q or an interrupt at the page prompt, on any page, returns
\* control to the calling query mode, which continues with the prompt that
\* follows its results: the repeat prompt of type, tag and smart search, the
\* press-Enter prompt of the free-plugin listing; the process does not end
\* and no error is reported.
C7_QuitReturnsToCaller ==
    [][QuitsPaging =>
         /\ caller' = caller
         /\ pc' = CASE caller = "type" -> "TypeRepeat"
                    [] caller = "tag" -> "TagRepeat"
                    [] caller = "smart" -> "SmartRepeat"
                    [] caller = "free" -> "FreeReturn"
                    [] OTHER -> "none"
         /\ out' \in {"none", "returning"}]_vars

C7_Witness ==
    /\ last = "interrupt"
    /\ out = "returning"
    /\ pc = "FreeReturn"

\* C8: with a non-empty catalog loaded, a line of input ends the process only
\* when it is the exit choice 5 at MainMenu; a menu input other than 1-5
\* reports an error and stays in MainMenu; no answer inside a query mode or
\* at the page prompt ends the process.
C8_OnlyExitTerminates ==
    [][(pc \in Prompts /\ last' # "interrupt") =>
         /\ pc' # "Aborted"
         /\ pc' = "Terminated" <=> (pc = "MainMenu" /\ lastInput' = <<"5">>)
         /\ (pc = "MainMenu"
               /\ lastInput' \notin {<<"1">>, <<"2">>, <<"3">>, <<"4">>, <<"5">>}) =>
                 pc' = "MainMenu" /\ out' = "invalid_choice"]_vars

C8_Witness ==
    /\ last = "menu"
    /\ lastInput = <<" ","5">>
    /\ pc = "MainMenu"
    /\ out = "invalid_choice"

\* C9: an empty query at the smart-search prompt cancels: control is back at
\* MainMenu, nothing was filtered, no results and no message were printed
\* and the repeat question was not asked.
C9_EmptyQueryCancels ==
    (last = "smart_query" /\ lastInput = <<>>) =>
        /\ pc = "MainMenu"
        /\ out = "none"
        /\ found = <<>>
        /\ results = <<>>
        /\ shown = <<>>

C9_Witness ==
    /\ last = "smart_query"
    /\ lastInput = <<>>
    /\ database # <<>>
    /\ pc = "MainMenu"

\* tool satisfies the price conditions the words ask for
PriceConditions(words, tool) ==
    /\ FreeWord \in words => tool.price = 0
    /\ PaidWord \in words => tool.price > 0

\* C10: a non-empty smart-search query without search tokens (only
\* whitespace, only price keywords) is not cancelled: the result is a part
\* of the catalog in catalog order that holds every record satisfying the
\* requested price conditions, and no record at a price other than 0 when
\* "free" was asked; a whitespace-only query returns the whole catalog.
C10_NoTokensMatchesAll ==
    LET words == QueryWords(Lower(lastInput))
    IN  (/\ last = "smart_query"
         /\ lastInput # <<>>
         /\ words \subseteq {FreeWord, PaidWord}) =>
            /\ pc \in {"SmartRepeat", "PagePrompt"}
            /\ out = IF found = <<>> THEN "not_found" ELSE "found"
            /\ found = SelectSeq(database, LAMBDA tool : tool \in Range(found))
            /\ \A tool \in Range(database) :
                 PriceConditions(words, tool) => tool \in Range(found)
            /\ FreeWord \in words => \A tool \in Range(found) : tool.price = 0
            /\ words = {} => found = database

C10_Witness ==
    /\ last = "smart_query"
    /\ lastInput = <<" ">>
    /\ Len(found) = 5
    /\ found = database

====
